---- MODULE Spec2Model ----
(***************************************************************************)
(* Model of the files plugin (src/plugins/files/__init__.py): the          *)
(* configuration loader, the two scanning backends and the menu session.   *)
(*                                                                         *)
(* Strings are sequences of one-character strings, so that startswith,     *)
(* lstrip and pathlib's suffix are computed and not assumed.  A path is    *)
(* the sequence of its name components below "/"; <<>> is "/" itself.      *)
(***************************************************************************)
EXTENDS Integers, Sequences, FiniteSets, TLC

VARIABLES
    config,     \* self._config
    data,       \* what ctx.get_data("config") returns
    raised,     \* the exception that left the running method, or "none"
    pc,         \* position of the running method
    backend,    \* what _has_fd() decided for this scan
    idx,        \* position of the `for scan_path in ...` loop (1-based)
    all_files,  \* the local list all_files
    origin,     \* for each entry of all_files, the loop position that added it
    delegate,   \* for each loop position, how the fd call made there ended
    walking,    \* the fallback is inside os.walk for scan_paths[idx]
    stack,      \* directories os.walk has still to yield, next one first
    cur,        \* `root` of the os.walk iteration in progress
    pending,    \* rest of `files` of the os.walk iteration in progress
    selected,   \* what the last ctx.menu call returned
    opened,     \* the paths handed to _open_file, in order
    log         \* the scans started and menus presented in this session, in order

\* the variables of a menu session
menuVars == <<selected, opened, log>>

vars == <<config, data, raised, pc, backend, idx, all_files, origin,
          delegate, walking, stack, cur, pending, selected, opened, log>>

-----------------------------------------------------------------------------
(* Bounds of the model *)

MaxRoots == 2        \* longest scan_paths list tried
MaxDepthBound == 2   \* largest max_depth tried
MaxCap == 2          \* largest truncating max_files tried
NoCap == 19          \* a max_files well above MaxCap, which seldom truncates

-----------------------------------------------------------------------------
(* Strings *)

Dot == "."
EmptyStr == <<>>

\* str.startswith(prefix) for a one-character prefix
StartsWith(s, c) == Len(s) > 0 /\ s[1] = c

\* str.lstrip(c) for a one-character c
RECURSIVE LStrip(_, _)
LStrip(s, c) == IF StartsWith(s, c) THEN LStrip(Tail(s), c) ELSE s

\* str.rfind(c): 1-based position of the last c, 0 when there is none
RFind(s, c) ==
    LET hits == {i \in 1..Len(s) : s[i] = c}
    IN  IF hits = {} THEN 0 ELSE CHOOSE i \in hits : \A j \in hits : j <= i

\* pathlib.PurePath.suffix of a file name: from the last dot on, empty when
\* the name has no dot, starts with its only dot, or ends with a dot
Suffix(name) ==
    LET i == RFind(name, Dot)
    IN  IF 1 < i /\ i < Len(name) THEN SubSeq(name, i, Len(name)) ELSE EmptyStr

Range(s) == {s[i] : i \in 1..Len(s)}

\* s[:n]
Take(s, n) == SubSeq(s, 1, IF n < Len(s) THEN n ELSE Len(s))

RECURSIVE Concat(_)
Concat(ss) == IF ss = <<>> THEN <<>> ELSE Head(ss) \o Concat(Tail(ss))

Reverse(s) == [i \in 1..Len(s) |-> s[Len(s) + 1 - i]]

-----------------------------------------------------------------------------
(* The filesystem the scans run against *)

Tilde == <<"~">>
nHome == <<"h">>
nWork == <<"w">>
nNone == <<"n">>
nDocs == <<"d">>
nSub == <<"s">>
nDeep == <<"u">>
nVenv == <<"v">>
nGit == <<".", "g">>
extT == <<"t">>
extM == <<"m">>
dotT == <<".", "t">>

NoEntries == [dirs |-> <<>>, files |-> <<>>]

\* directory -> its entries in scandir order.  v is both a directory name
\* (/h/v) and a regular file name (/h/d/v); .g and .h are hidden.
Tree ==
    (<<>> :> [dirs |-> <<nHome, nWork>>, files |-> <<>>])
    @@ (<<nHome>> :>
          [dirs |-> <<nDocs, nVenv, nGit>>,
           files |-> << <<"a", ".", "t">>, <<"R">>, <<".", "h">> >>])
    @@ (<<nHome, nDocs>> :>
          [dirs |-> <<nSub>>, files |-> << <<"b", ".", "m">>, nVenv >>])
    @@ (<<nHome, nDocs, nSub>> :>
          [dirs |-> <<nDeep>>, files |-> << <<"c", ".", "t">> >>])
    @@ (<<nHome, nDocs, nSub, nDeep>> :>
          [dirs |-> <<>>, files |-> << <<"e", ".", "t">> >>])
    @@ (<<nHome, nVenv>> :> [dirs |-> <<>>, files |-> << <<"x", ".", "t">> >>])
    @@ (<<nHome, nGit>> :> [dirs |-> <<>>, files |-> << <<"y", ".", "t">> >>])
    @@ (<<nWork>> :>
          [dirs |-> <<>>, files |-> << <<"f", ".", "T">>, <<"g", ".", "t">> >>])

\* what scandir yields for a directory; os.walk swallows the error of a
\* directory that cannot be listed and yields nothing for it
ListDir(p) == IF p \in DOMAIN Tree THEN Tree[p] ELSE NoEntries

\* the user's home directory
Home == <<nHome>>

\* Path(scan_path).expanduser()
ExpandUser(p) ==
    IF Len(p) > 0 /\ p[1] = Tilde THEN Home \o Tail(p) ELSE p

\* Path.exists()
Exists(p) == p \in DOMAIN Tree

\* str(path).count(os.sep): "/" holds one separator, "/a/b" two
SepCount(p) == IF p = <<>> THEN 1 ELSE Len(p)

\* os.path.join(root, filename)
Join(root, filename) == Append(root, filename)

\* every regular file below dir, in top-down walk order
RECURSIVE TreeFiles(_)
TreeFiles(dir) ==
    LET e == ListDir(dir)
    IN  [i \in 1..Len(e.files) |-> Join(dir, e.files[i])]
        \o Concat([i \in 1..Len(e.dirs) |-> TreeFiles(Join(dir, e.dirs[i]))])

-----------------------------------------------------------------------------
(* FilesConfig *)

\* ~/d (that is /h/d), /, /w, and /n, which does not exist
RootChoices == {<<Tilde, nDocs>>, <<>>, <<nWork>>, <<nNone>>}
ScanPathChoices == UNION {[1..k -> RootChoices] : k \in 1..MaxRoots}
DepthChoices == 0..MaxDepthBound
IncludeChoices == {<<>>, <<extT>>, <<dotT, extM>>}
ExcludeChoices == {<<>>, <<nVenv, nGit>>}
CapChoices == (1..MaxCap) \cup {NoCap}

Configs ==
    [none : {FALSE},
     scan_paths : ScanPathChoices,
     max_depth : DepthChoices,
     include_extensions : IncludeChoices,
     exclude_patterns : ExcludeChoices,
     max_files : CapChoices]

NoConfig ==
    [none |-> TRUE, scan_paths |-> <<>>, max_depth |-> 0,
     include_extensions |-> <<>>, exclude_patterns |-> <<>>, max_files |-> 0]

NoData ==
    [none |-> TRUE, has |-> {}, scan_paths |-> <<>>, max_depth |-> 0,
     include_extensions |-> <<>>, exclude_patterns |-> <<>>, max_files |-> 0]

\* no ctx.menu call has returned yet
NoSelection == [kind |-> "unset", path |-> <<>>]

NumRoots == Len(config.scan_paths)

\* the expanded path of the scan_path at loop position i
RootAt(i) == ExpandUser(config.scan_paths[i])

NoCalls == [i \in 1..NumRoots |-> [outcome |-> "none", lines |-> <<>>]]

-----------------------------------------------------------------------------
(* Delegate backend: _scan_with_fd *)

\* the name components of p below root
Rel(root, p) == SubSeq(p, Len(root) + 1, Len(p))

\* cmd of one loop iteration, as the options it carries: --type f,
\* --max-depth only for a positive max_depth, one --exclude per pattern,
\* one --extension per entry with its leading dots stripped, the target
FdCommand(path) ==
    [type |-> "f",
     has_max_depth |-> config.max_depth > 0,
     max_depth |-> config.max_depth,
     exclude |-> Range(config.exclude_patterns),
     extension |-> {LStrip(config.include_extensions[i], Dot) :
                      i \in 1..Len(config.include_extensions)},
     target |-> path]

\* whether the utility, obeying its invocation contract, prints the
\* regular file p for cmd: hidden entries are skipped, --max-depth bounds
\* the number of components below the target, --exclude drops every entry
\* of that name together with what lies beneath it, --extension keeps the
\* names ending in one of the extensions
FdSelects(cmd, p) ==
    LET rel == Rel(cmd.target, p)
    IN  /\ \A i \in 1..Len(rel) : ~StartsWith(rel[i], Dot)
        /\ cmd.has_max_depth => Len(rel) <= cmd.max_depth
        /\ \A i \in 1..Len(rel) : rel[i] \notin cmd.exclude
        /\ cmd.extension # {} =>
             LStrip(Suffix(rel[Len(rel)]), Dot) \in cmd.extension

\* the lines of result.stdout of a run that exits 0; the utility searches
\* in parallel, so the order in which it prints is not fixed
FdStdout(cmd, order) ==
    LET found == SelectSeq(TreeFiles(cmd.target), LAMBDA p : FdSelects(cmd, p))
    IN  IF order = "walk" THEN found ELSE Reverse(found)

\* result.stdout.strip().split("\n"): an empty output splits into [""]
SplitLines(out) == IF out = <<>> THEN <<EmptyStr>> ELSE out

\* (f for f in files if f)
NonEmptyLines(files) == SelectSeq(files, LAMBDA f : f # EmptyStr)

\* all_files.extend(...)
ExtendFront(acc, new) == new \o acc
Extend(acc, new) == acc \o new

\* len(all_files) >= self._config.max_files
LimitReached(files) == Len(files) >= config.max_files

\* all_files[: self._config.max_files]
TruncateNot(files) == files
Truncate(files) == Take(files, config.max_files)

\* the cap check that closes an iteration of the loop over scan_paths
FdCheckLimit(files, origins) ==
    IF LimitReached(files)
    THEN /\ all_files' = Truncate(files)
         /\ origin' = Truncate(origins)
         /\ pc' = "done"
         /\ idx' = idx
    ELSE /\ all_files' = files
         /\ origin' = origins
         /\ pc' = pc
         /\ idx' = idx + 1

\* `continue` for a scan_path that does not exist
MissingRootAborts ==
    /\ pc' = "done"
    /\ idx' = idx
MissingRootContinue ==
    /\ pc' = pc
    /\ idx' = idx + 1

\* the except clause of the delegate call: `continue`
FdExceptRaises ==
    /\ raised' = "TimeoutExpired"
    /\ pc' = "done"
    /\ idx' = idx
FdExcept ==
    /\ raised' = raised
    /\ pc' = pc
    /\ idx' = idx + 1

\* _scan_files: choose the backend by probing for the utility
ScanFiles ==
    /\ pc = "start"
    /\ IF config.none
       THEN pc' = "done" /\ backend' = backend
       ELSE \E has_fd \in BOOLEAN :
              /\ backend' = IF has_fd THEN "fd" ELSE "python"
              /\ pc' = backend'
    /\ UNCHANGED <<menuVars, config, data, raised, idx, all_files, origin, delegate,
                   walking, stack, cur, pending>>

FdSkipMissing ==
    /\ pc = "fd"
    /\ idx <= NumRoots
    /\ ~Exists(RootAt(idx))
    /\ MissingRootContinue
    /\ UNCHANGED <<menuVars, config, data, raised, backend, all_files, origin, delegate,
                   walking, stack, cur, pending>>

\* the call returns with exit status 0
FdSuccess ==
    /\ pc = "fd"
    /\ idx <= NumRoots
    /\ Exists(RootAt(idx))
    /\ \E order \in {"walk", "reverse"} :
         LET files == SplitLines(FdStdout(FdCommand(RootAt(idx)), order))
             new == NonEmptyLines(files)
         IN  /\ delegate' = [delegate EXCEPT ![idx] =
                               [outcome |-> "ok", lines |-> new]]
             /\ FdCheckLimit(Extend(all_files, new),
                             Extend(origin, [i \in 1..Len(new) |-> idx]))
    /\ UNCHANGED <<menuVars, config, data, raised, backend, walking, stack, cur, pending>>

\* the call returns with another exit status: its output is not read
FdNonZero ==
    /\ pc = "fd"
    /\ idx <= NumRoots
    /\ Exists(RootAt(idx))
    /\ delegate' = [delegate EXCEPT ![idx] = [outcome |-> "nonzero", lines |-> <<>>]]
    /\ FdCheckLimit(all_files, origin)
    /\ UNCHANGED <<menuVars, config, data, raised, backend, walking, stack, cur, pending>>

\* the call times out or cannot be launched
FdException ==
    /\ pc = "fd"
    /\ idx <= NumRoots
    /\ Exists(RootAt(idx))
    /\ \E why \in {"timeout", "launch"} :
         delegate' = [delegate EXCEPT ![idx] = [outcome |-> why, lines |-> <<>>]]
    /\ FdExcept
    /\ UNCHANGED <<menuVars, config, data, backend, all_files, origin,
                   walking, stack, cur, pending>>

FdReturn ==
    /\ pc = "fd"
    /\ idx > NumRoots
    /\ pc' = "done"
    /\ UNCHANGED <<menuVars, config, data, raised, backend, idx, all_files, origin,
                   delegate, walking, stack, cur, pending>>

-----------------------------------------------------------------------------
(* Fallback walker: _scan_with_python *)

\* depth = str(root).count(os.sep) - str(path).count(os.sep)
Depth(root, path) == SepCount(root) - SepCount(path)

\* self._config.max_depth > 0 and depth >= self._config.max_depth
DepthPrunedLate(depth) == config.max_depth > 0 /\ depth > config.max_depth
DepthPruned(depth) == config.max_depth > 0 /\ depth >= config.max_depth

\* dirs[:] = [d for d in dirs if d not in exclude_patterns
\*            and not d.startswith(".")]
KeptDirs(dirs) ==
    SelectSeq(dirs, LAMBDA d : /\ d \notin Range(config.exclude_patterns)
                               /\ ~StartsWith(d, Dot))

\* the extension filter: passes when include_extensions is empty or holds
\* Path(filename).suffix.lstrip(".")
ExtAccepted(filename) ==
    \/ config.include_extensions = <<>>
    \/ LStrip(Suffix(filename), Dot) \in Range(config.include_extensions)

PySkipMissing ==
    /\ pc = "python"
    /\ ~walking
    /\ idx <= NumRoots
    /\ ~Exists(RootAt(idx))
    /\ MissingRootContinue
    /\ UNCHANGED <<menuVars, config, data, raised, backend, all_files, origin, delegate,
                   walking, stack, cur, pending>>

\* os.walk(path) starts
PyEnterRoot ==
    /\ pc = "python"
    /\ ~walking
    /\ idx <= NumRoots
    /\ Exists(RootAt(idx))
    /\ walking' = TRUE
    /\ stack' = <<RootAt(idx)>>
    /\ UNCHANGED <<menuVars, config, data, raised, pc, backend, idx, all_files, origin,
                   delegate, cur, pending>>

\* os.walk yields the next directory: the depth check, then the filter of
\* the directories to descend into
PyVisitDir ==
    /\ pc = "python"
    /\ walking
    /\ pending = <<>>
    /\ stack # <<>>
    /\ LET root == Head(stack)
           e == ListDir(root)
           kept == KeptDirs(e.dirs)
       IN  IF DepthPruned(Depth(root, RootAt(idx)))
           THEN /\ stack' = Tail(stack)
                /\ UNCHANGED <<cur, pending>>
           ELSE /\ stack' = [i \in 1..Len(kept) |-> Join(root, kept[i])]
                            \o Tail(stack)
                /\ cur' = root
                /\ pending' = e.files
    /\ UNCHANGED <<menuVars, config, data, raised, pc, backend, idx, all_files, origin,
                   delegate, walking>>

\* one iteration of `for filename in files`
PyFile ==
    /\ pc = "python"
    /\ walking
    /\ pending # <<>>
    /\ pending' = Tail(pending)
    /\ LET filename == Head(pending)
       IN  IF StartsWith(filename, Dot) \/ ~ExtAccepted(filename)
           THEN UNCHANGED <<all_files, origin, pc>>
           ELSE /\ all_files' = Append(all_files, Join(cur, filename))
                /\ origin' = Append(origin, idx)
                /\ pc' = IF LimitReached(all_files') THEN "done" ELSE pc
    /\ UNCHANGED <<menuVars, config, data, raised, backend, idx, delegate, walking,
                   stack, cur>>

\* os.walk(path) is exhausted
PyRootDone ==
    /\ pc = "python"
    /\ walking
    /\ pending = <<>>
    /\ stack = <<>>
    /\ walking' = FALSE
    /\ idx' = idx + 1
    /\ UNCHANGED <<menuVars, config, data, raised, pc, backend, all_files, origin,
                   delegate, stack, cur, pending>>

PyReturn ==
    /\ pc = "python"
    /\ ~walking
    /\ idx > NumRoots
    /\ pc' = "done"
    /\ UNCHANGED <<menuVars, config, data, raised, backend, idx, all_files, origin,
                   delegate, walking, stack, cur, pending>>

-----------------------------------------------------------------------------
(* A scan of the fixture under some configuration *)

Init ==
    /\ config \in Configs
    /\ data = NoData
    /\ raised = "none"
    /\ pc = "start"
    /\ backend = "none"
    /\ idx = 1
    /\ all_files = <<>>
    /\ origin = <<>>
    /\ delegate = NoCalls
    /\ walking = FALSE
    /\ stack = <<>>
    /\ cur = <<>>
    /\ pending = <<>>
    /\ selected = NoSelection
    /\ opened = <<>>
    /\ log = <<>>

Next ==
    \/ ScanFiles
    \/ FdSkipMissing
    \/ FdSuccess
    \/ FdNonZero
    \/ FdException
    \/ FdReturn
    \/ PySkipMissing
    \/ PyEnterRoot
    \/ PyVisitDir
    \/ PyFile
    \/ PyRootDone
    \/ PyReturn

Spec == Init /\ [][Next]_vars

Done == pc = "done"

-----------------------------------------------------------------------------
(* Configuration loading: setup and _load_config *)

DefaultMaxDepth == 5
DefaultMaxFiles == 10000

\* FilesConfig(): every field at its declared default
DefaultConfig ==
    [none |-> FALSE,
     scan_paths |->
        << <<Tilde, <<"D", "o", "c", "u", "m", "e", "n", "t", "s">> >>,
           <<Tilde, <<"D", "o", "w", "n", "l", "o", "a", "d", "s">> >>,
           <<Tilde, <<"P", "r", "o", "j", "e", "c", "t", "s">> >> >>,
     max_depth |-> DefaultMaxDepth,
     include_extensions |-> <<>>,
     exclude_patterns |->
        << <<".", "g", "i", "t">>,
           <<"_", "_", "p", "y", "c", "a", "c", "h", "e", "_", "_">>,
           <<"n", "o", "d", "e", "_", "m", "o", "d", "u", "l", "e", "s">>,
           <<".", "v", "e", "n", "v">>,
           <<"v", "e", "n", "v">>,
           <<".", "c", "a", "c", "h", "e">> >>,
     max_files |-> DefaultMaxFiles]

\* the fields of FilesConfig, in the order _load_config evaluates them
FieldNames ==
    <<"scan_paths", "max_depth", "include_extensions", "exclude_patterns",
      "max_files">>

\* the attributes the class FilesConfig carries once @dataclass has run: a
\* field declared with a plain default stays a class attribute, a field
\* declared with field(default_factory=...) does not
ClassAttributes == {"max_depth", "max_files"}

\* the stored records tried: any subset of the fields present, each with
\* one of two values; an absent field carries the filler of NoConfig
StoredValues ==
    [scan_paths |-> {<<<<nWork>>>>, <<<<Tilde>>, <<nWork>>>>},
     max_depth |-> {0, 2},
     include_extensions |-> {<<>>, <<extT>>},
     exclude_patterns |-> {<<>>, <<nVenv>>},
     max_files |-> {1, 3}]

StoredChoices ==
    {d \in [none : {FALSE},
            has : SUBSET Range(FieldNames),
            scan_paths : StoredValues.scan_paths \cup {NoConfig.scan_paths},
            max_depth : StoredValues.max_depth \cup {NoConfig.max_depth},
            include_extensions : StoredValues.include_extensions,
            exclude_patterns : StoredValues.exclude_patterns,
            max_files : StoredValues.max_files \cup {NoConfig.max_files}] :
        \A f \in Range(FieldNames) :
            IF f \in d.has THEN d[f] \in StoredValues[f] ELSE d[f] = NoConfig[f]}
    \cup {NoData}

\* data.get(key, default)
DictGet(d, key, default) == IF key \in d.has THEN d[key] ELSE default

\* setup: self._config = self._load_config(ctx).  The arguments of the
\* FilesConfig(...) call are evaluated before the call, each default
\* FilesConfig.<field> included, whether or not the record holds the key.
Setup ==
    /\ pc = "setup"
    /\ IF data.none
       THEN /\ config' = DefaultConfig
            /\ raised' = raised
            /\ pc' = "ready"
       ELSE IF \E i \in 1..Len(FieldNames) : FieldNames[i] \notin ClassAttributes
            THEN /\ raised' = "AttributeError"
                 /\ config' = config
                 /\ pc' = "failed"
            ELSE /\ config' =
                       [f \in DOMAIN DefaultConfig |->
                          IF f = "none" THEN FALSE
                          ELSE DictGet(data, f, DefaultConfig[f])]
                 /\ raised' = raised
                 /\ pc' = "ready"
    /\ UNCHANGED <<menuVars, data, backend, idx, all_files, origin, delegate, walking,
                   stack, cur, pending>>

InitLoad ==
    /\ config = NoConfig
    /\ data \in StoredChoices
    /\ raised = "none"
    /\ pc = "setup"
    /\ backend = "none"
    /\ idx = 1
    /\ all_files = <<>>
    /\ origin = <<>>
    /\ delegate = <<>>
    /\ walking = FALSE
    /\ stack = <<>>
    /\ cur = <<>>
    /\ pending = <<>>
    /\ selected = NoSelection
    /\ opened = <<>>
    /\ log = <<>>

NextLoad == Setup

SpecLoad == InitLoad /\ [][NextLoad]_vars

-----------------------------------------------------------------------------
(* The files menu session: _show_files_menu, _show_settings, _edit_paths *)

MaxAnswers == 4   \* ctx.menu calls answered in one session

\* the configurations a session starts from: none yet, or /w alone, or ~/d
\* and /n with the cap at 2
MenuConfigs ==
    {NoConfig,
     [none |-> FALSE, scan_paths |-> << <<nWork>> >>, max_depth |-> 0,
      include_extensions |-> <<>>, exclude_patterns |-> <<>>,
      max_files |-> NoCap],
     [none |-> FALSE, scan_paths |-> << <<Tilde, nDocs>>, <<nNone>> >>,
      max_depth |-> 1, include_extensions |-> <<>>,
      exclude_patterns |-> <<nVenv, nGit>>, max_files |-> MaxCap]}

\* what ctx.menu can return.  The item of a file carries its path as
\* metadata and has the id "files:" + path, which holds a separator and so
\* is never "files:settings"; an item with neither is any other item a
\* controller hands back.
NothingSelected == [kind |-> "none", path |-> <<>>]
SettingsItem == [kind |-> "settings", path |-> <<>>]
OtherItem == [kind |-> "other", path |-> <<>>]
FileItem(p) == [kind |-> "file", path |-> p]

\* items of _show_files_menu: one per scanned file, Settings at the end
FileItems == [k \in 1..Len(all_files) |-> FileItem(all_files[k])]

MenuEvents == {"files_menu", "settings_menu", "paths_menu"}

\* the ctx.menu calls answered so far
Answered == Cardinality({i \in 1..Len(log) : log[i] \in MenuEvents})

\* where _show_files_menu goes after _open_file: `return`
AfterOpenLoops == "items"
AfterOpen == "returned"

\* top of the loop of _show_files_menu: _get_file_items enters a scan, with
\* the default configuration when none is set
GetFileItems ==
    /\ pc = "items"
    /\ config' = IF config.none THEN DefaultConfig ELSE config
    /\ log' = Append(log, "scan")
    /\ pc' = "start"
    /\ backend' = "none"
    /\ idx' = 1
    /\ all_files' = <<>>
    /\ origin' = <<>>
    /\ delegate' = [i \in 1..Len(config'.scan_paths) |->
                      [outcome |-> "none", lines |-> <<>>]]
    /\ walking' = FALSE
    /\ stack' = <<>>
    /\ cur' = <<>>
    /\ pending' = <<>>
    /\ UNCHANGED <<data, raised, selected, opened>>

\* the files menu is answered with nothing selected: return
FilesMenuNone ==
    /\ pc = "done"
    /\ Answered < MaxAnswers
    /\ selected' = NothingSelected
    /\ log' = Append(log, "files_menu")
    /\ pc' = "returned"
    /\ UNCHANGED <<config, data, raised, backend, idx, all_files, origin,
                   delegate, walking, stack, cur, pending, opened>>

\* the files menu is answered with the Settings item: _show_settings
FilesMenuSettings ==
    /\ pc = "done"
    /\ Answered < MaxAnswers
    /\ selected' = SettingsItem
    /\ log' = Append(log, "files_menu")
    /\ pc' = "settings"
    /\ UNCHANGED <<config, data, raised, backend, idx, all_files, origin,
                   delegate, walking, stack, cur, pending, opened>>

\* the files menu is answered with the item of a file: _open_file, return
FilesMenuOpen ==
    /\ pc = "done"
    /\ Answered < MaxAnswers
    /\ \E k \in 1..Len(FileItems) :
         /\ selected' = FileItems[k]
         /\ opened' = Append(opened, selected'.path)
    /\ log' = log \o <<"files_menu", "open">>
    /\ pc' = AfterOpen
    /\ UNCHANGED <<config, data, raised, backend, idx, all_files, origin,
                   delegate, walking, stack, cur, pending>>

\* the files menu is answered with an item that is neither: loop
FilesMenuOther ==
    /\ pc = "done"
    /\ Answered < MaxAnswers
    /\ selected' = OtherItem
    /\ log' = Append(log, "files_menu")
    /\ pc' = "items"
    /\ UNCHANGED <<config, data, raised, backend, idx, all_files, origin,
                   delegate, walking, stack, cur, pending, opened>>

\* the settings menu is answered with nothing selected: back in the loop
\* of _show_files_menu
SettingsBack ==
    /\ pc = "settings"
    /\ Answered < MaxAnswers
    /\ selected' = NothingSelected
    /\ log' = Append(log, "settings_menu")
    /\ pc' = "items"
    /\ UNCHANGED <<config, data, raised, backend, idx, all_files, origin,
                   delegate, walking, stack, cur, pending, opened>>

\* the settings menu is answered with Scan Paths: _edit_paths
SettingsPaths ==
    /\ pc = "settings"
    /\ Answered < MaxAnswers
    /\ selected' = [kind |-> "paths", path |-> <<>>]
    /\ log' = Append(log, "settings_menu")
    /\ pc' = "paths"
    /\ UNCHANGED <<config, data, raised, backend, idx, all_files, origin,
                   delegate, walking, stack, cur, pending, opened>>

\* the settings menu is answered with Max Depth or Rescan Files: notify
SettingsNotify ==
    /\ pc = "settings"
    /\ Answered < MaxAnswers
    /\ \E kind \in {"depth", "rescan"} :
         selected' = [kind |-> kind, path |-> <<>>]
    /\ log' = Append(log, "settings_menu")
    /\ UNCHANGED <<config, data, raised, pc, backend, idx, all_files, origin,
                   delegate, walking, stack, cur, pending, opened>>

\* the paths menu is answered with nothing selected: back in _show_settings
PathsBack ==
    /\ pc = "paths"
    /\ Answered < MaxAnswers
    /\ selected' = NothingSelected
    /\ log' = Append(log, "paths_menu")
    /\ pc' = "settings"
    /\ UNCHANGED <<config, data, raised, backend, idx, all_files, origin,
                   delegate, walking, stack, cur, pending, opened>>

\* the paths menu is answered with Add Path... or with a path: notify
PathsNotify ==
    /\ pc = "paths"
    /\ Answered < MaxAnswers
    /\ \E kind \in {"add", "path"} :
         selected' = [kind |-> kind, path |-> <<>>]
    /\ log' = Append(log, "paths_menu")
    /\ UNCHANGED <<config, data, raised, pc, backend, idx, all_files, origin,
                   delegate, walking, stack, cur, pending, opened>>

InitMenu ==
    /\ config \in MenuConfigs
    /\ data = NoData
    /\ raised = "none"
    /\ pc = "items"
    /\ backend = "none"
    /\ idx = 1
    /\ all_files = <<>>
    /\ origin = <<>>
    /\ delegate = <<>>
    /\ walking = FALSE
    /\ stack = <<>>
    /\ cur = <<>>
    /\ pending = <<>>
    /\ selected = NoSelection
    /\ opened = <<>>
    /\ log = <<>>

NextMenu ==
    \/ GetFileItems
    \/ Next
    \/ FilesMenuNone
    \/ FilesMenuSettings
    \/ FilesMenuOpen
    \/ FilesMenuOther
    \/ SettingsBack
    \/ SettingsPaths
    \/ SettingsNotify
    \/ PathsBack
    \/ PathsNotify

SpecMenu == InitMenu /\ [][NextMenu]_vars

-----------------------------------------------------------------------------
(* What the properties below refer to *)

\* the file name of a path
BaseName(p) == p[Len(p)]

\* the name components of the k-th result below the root that produced it
RelOfResult(k) == Rel(RootAt(origin[k]), all_files[k])

\* the loop positions whose scan_path exists, in order
ExistingPositions ==
    SelectSeq([i \in 1..NumRoots |-> i], LAMBDA i : Exists(RootAt(i)))

\* the files the fallback accepts below dir when walking from path, in the
\* order of the walk
RECURSIVE WalkList(_, _)
WalkList(path, dir) ==
    IF DepthPruned(Depth(dir, path))
    THEN <<>>
    ELSE LET e == ListDir(dir)
             kept == KeptDirs(e.dirs)
             names == SelectSeq(e.files,
                         LAMBDA f : ~StartsWith(f, Dot) /\ ExtAccepted(f))
         IN  [i \in 1..Len(names) |-> Join(dir, names[i])]
             \o Concat([i \in 1..Len(kept) |-> WalkList(path, Join(dir, kept[i]))])

\* the list the backend in use obtains for loop position i: what the
\* utility printed there (nothing when the call failed or was not made),
\* or what the walk from that root accepts
PerRoot(i) ==
    IF backend = "fd" THEN delegate[i].lines
    ELSE IF Exists(RootAt(i)) THEN WalkList(RootAt(i), RootAt(i))
    ELSE <<>>

\* the entries of the result that loop position i added
FromRoot(i) ==
    LET at == SelectSeq([k \in 1..Len(all_files) |-> k], LAMBDA k : origin[k] = i)
    IN  [n \in 1..Len(at) |-> all_files[at[n]]]

FdFailures == {"timeout", "launch", "nonzero"}

-----------------------------------------------------------------------------
(* Properties *)

\* C1 - cap invariant: the list a scan returns never holds more than
\* max_files paths, whatever the roots and whatever the delegate printed.
CapInvariant == Done => Len(all_files) <= config.max_files

\* a finished delegate scan in which one call printed more lines than the cap
CapWitness ==
    /\ Done
    /\ backend = "fd"
    /\ Len(all_files) = config.max_files
    /\ \E i \in 1..NumRoots :
         delegate[i].outcome = "ok" /\ Len(delegate[i].lines) > config.max_files

\* C2 - no duplicates: no path occurs twice in the list a scan returns,
\* also when roots repeat or overlap.
NoDuplicates ==
    Done => \A k, l \in 1..Len(all_files) : k # l => all_files[k] # all_files[l]

\* C3 - exclusion invariant: no returned path has a component below its
\* scan root, directory or file name, equal to an exclude pattern.
ExclusionInvariant ==
    Done => \A k \in 1..Len(all_files) :
              \A n \in 1..Len(RelOfResult(k)) :
                 RelOfResult(k)[n] \notin Range(config.exclude_patterns)

\* C4 - backend parity: when the cap does not truncate, the fallback
\* returns exactly the paths the delegate, obeying its invocation contract,
\* prints for the existing roots.
BackendParity ==
    (Done /\ backend = "python" /\ Len(all_files) < config.max_files)
    => Range(all_files) =
         UNION {Range(FdStdout(FdCommand(RootAt(i)), "walk")) :
                  i \in Range(ExistingPositions)}

\* C5 - depth invariant: with max_depth = N > 0 every returned path lies in
\* a directory at most N levels below the root that produced it, the depth
\* being counted from that root alone.
DepthInvariant ==
    (Done /\ config.max_depth > 0)
    => \A k \in 1..Len(all_files) :
          Len(RelOfResult(k)) - 1 <= config.max_depth

\* a finished walk with depth bound 1 over a nested root and its ancestor,
\* both of which contributed
DepthWitness ==
    /\ Done
    /\ backend = "python"
    /\ config.max_depth = 1
    /\ config.scan_paths = << <<Tilde, nDocs>>, <<>> >>
    /\ \E k, l \in 1..Len(all_files) : origin[k] = 1 /\ origin[l] = 2

\* C6 - extension invariant: with a non-empty include_extensions every
\* returned file name has a suffix, and the suffix without its dot is an
\* entry of include_extensions.
ExtensionInvariant ==
    (Done /\ config.include_extensions # <<>>)
    => \A k \in 1..Len(all_files) :
          LET suffix == Suffix(BaseName(all_files[k]))
          IN  /\ suffix # EmptyStr
              /\ Tail(suffix) \in Range(config.include_extensions)

\* C7 - root-order truncation precedence: the returned list is a prefix of
\* the per-root lists concatenated in the order of scan_paths; entries of
\* an earlier root come first, and a later root has entries only when
\* every earlier root's list is there in full.
RootOrderPrecedence ==
    Done =>
      /\ all_files =
           Take(Concat([i \in 1..NumRoots |-> PerRoot(i)]), Len(all_files))
      /\ \A k, l \in 1..Len(origin) : k < l => origin[k] <= origin[l]
      /\ \A i \in 1..NumRoots :
           FromRoot(i) = Take(PerRoot(i), Len(FromRoot(i)))
      /\ \A j \in Range(origin) : \A i \in 1..(j - 1) : FromRoot(i) = PerRoot(i)

\* a finished scan of two roots holding more eligible files than the cap,
\* cut inside the second root's list
RootOrderWitness ==
    /\ Done
    /\ NumRoots = 2
    /\ Len(all_files) = config.max_files
    /\ Len(PerRoot(1)) > 0
    /\ Len(PerRoot(1)) < config.max_files
    /\ Len(PerRoot(1)) + Len(PerRoot(2)) > config.max_files
    /\ origin[Len(origin)] = 2

\* C8 - missing-root tolerance: a scan raises nothing and returns what the
\* scan of the existing roots alone, in their order, returns; no delegate
\* call is made for a root that does not exist.
MissingRootTolerance ==
    Done =>
      /\ raised = "none"
      /\ all_files =
           Take(Concat([n \in 1..Len(ExistingPositions) |->
                          PerRoot(ExistingPositions[n])]),
                config.max_files)
      /\ \A i \in 1..NumRoots : ~Exists(RootAt(i)) => delegate[i].outcome = "none"

\* a finished scan whose first root does not exist and whose second root
\* contributed
MissingRootWitness ==
    /\ Done
    /\ NumRoots = 2
    /\ ~Exists(RootAt(1))
    /\ Exists(RootAt(2))
    /\ all_files # <<>>
    /\ origin[1] = 2

\* C9 - delegate failure absorption: a delegate call that times out, cannot
\* be launched or exits non-zero adds nothing, leaves the accumulated paths
\* as they were, raises nothing and moves the scan on to the next root.
DelegateFailureAbsorbed ==
    [][(/\ pc = "fd"
        /\ idx <= NumRoots
        /\ delegate'[idx].outcome \in FdFailures)
       => /\ all_files' = all_files
          /\ origin' = origin
          /\ raised' = "none"
          /\ pc' = "fd"
          /\ idx' = idx + 1]_vars

\* a finished delegate scan whose first call printed paths and whose second
\* call timed out
DelegateFailureWitness ==
    /\ Done
    /\ backend = "fd"
    /\ NumRoots = 2
    /\ delegate[1].outcome = "ok"
    /\ delegate[2].outcome = "timeout"
    /\ all_files # <<>>
    /\ all_files = delegate[1].lines

\* C10 - config defaults: loading a stored record that omits any subset of
\* the fields raises nothing and yields each omitted field at its default
\* and each present field at its stored value.
ConfigDefaults ==
    (pc \in {"ready", "failed"} /\ ~data.none)
    => /\ raised = "none"
       /\ ~config.none
       /\ \A i \in 1..Len(FieldNames) :
            config[FieldNames[i]] =
               DictGet(data, FieldNames[i], DefaultConfig[FieldNames[i]])

\* the directories os.walk yields from dir when walking from path: dir, and
\* unless the depth check cleared dirs, what it yields from each kept child
RECURSIVE Yielded(_, _)
Yielded(path, dir) ==
    {dir} \cup
    IF DepthPruned(Depth(dir, path))
    THEN {}
    ELSE UNION {Yielded(path, Join(dir, d)) :
                  d \in Range(KeptDirs(ListDir(dir).dirs))}

\* the paths of the files directly inside dir that pass the hidden-name
\* policy and the extension filter
EligibleIn(dir) ==
    {Join(dir, f) : f \in {g \in Range(ListDir(dir).files) :
                             ~StartsWith(g, Dot) /\ ExtAccepted(g)}}

\* whether p lies below dir at any depth
Below(dir, p) == Len(p) > Len(dir) /\ SubSeq(p, 1, Len(dir)) = dir

\* C11 - depth check gates descent only: in a walk with max_depth = N > 0
\* that the cap does not cut, for every directory the walk reaches at depth N
\* nothing from its subdirectories is returned, and every eligible file
\* directly inside it is returned.
DepthGatesDescentOnly ==
    (Done /\ backend = "python" /\ config.max_depth > 0
          /\ Len(all_files) < config.max_files)
    => \A i \in Range(ExistingPositions) :
         \A dir \in Yielded(RootAt(i), RootAt(i)) :
            Depth(dir, RootAt(i)) = config.max_depth
            => /\ \A p \in Range(FromRoot(i)) :
                    Below(dir, p) => Len(p) = Len(dir) + 1
               /\ EligibleIn(dir) \subseteq Range(FromRoot(i))

\* C12 - files menu session: _open_file is called at most once and ends the
\* session, so that no scan and no menu follows it; a session that has
\* ended ended on a nothing-selected answer to the files menu or right
\* after the open; while the settings menus are up no file has been opened,
\* and what follows them is a scan, which the files menu follows.
FilesMenuSession ==
    /\ Len(opened) <= 1
    /\ Len(opened) = Cardinality({i \in 1..Len(log) : log[i] = "open"})
    /\ opened # <<>> => pc = "returned"
    /\ \A i \in 1..Len(log) : log[i] = "open" => i = Len(log)
    /\ pc = "returned" =>
         \/ log[Len(log)] = "open" /\ selected.kind = "file"
         \/ log[Len(log)] = "files_menu" /\ selected = NothingSelected
    /\ pc \in {"settings", "paths"} => opened = <<>>
    /\ \A i \in 1..(Len(log) - 1) :
         /\ log[i] \in {"settings_menu", "paths_menu"}
              => log[i + 1] \in {"settings_menu", "paths_menu", "scan"}
         /\ log[i] = "scan" => log[i + 1] = "files_menu"

\* a session that went through the settings menu, came back to a rescanned
\* files menu and ended by opening a file
FilesMenuSessionWitness ==
    /\ pc = "returned"
    /\ Len(opened) = 1
    /\ \E i \in 1..Len(log) :
         /\ log[i] = "settings_menu"
         /\ SubSeq(log, i + 1, Len(log)) = <<"scan", "files_menu", "open">>

====
